---- MODULE Spec2Model ----
(***************************************************************************)
(* Model of miceinput.py: a loop that reads 3-byte mouse records from a    *)
(* device file, decodes button bits and two signed deltas, and prints one  *)
(* line per record.  An uncaught exception raised by a read or by the      *)
(* decoding ends the process.                                              *)
(***************************************************************************)
EXTENDS Integers, Sequences

VARIABLES
    source,    \* the bytes the device delivers before it closes or fails
    endKind,   \* how the device ends: "eof" (closes) or "ioerror" (read fails)
    pos,       \* offset of the open file: bytes consumed so far
    stdout,    \* the lines printed so far, in order
    frame,     \* local variables bound by the latest call of getMouseEvent
    pc,        \* "loop" while inside `while True`, "exited" after the process ended
    exc,       \* the uncaught exception that ended the process ("" while running)
    status     \* exit status of the process (-1 while it is running)

vars == <<source, endKind, pos, stdout, frame, pc, exc, status>>

----------------------------------------------------------------------------
(* Bounds of the model *)

MaxBytes == 7

SampleBytes == {0, 1, 5, 251}

(* Program constants *)

ByteMax == 255

RecordSize == 3

----------------------------------------------------------------------------
(* Pure helpers *)

Min(a, b) == IF a < b THEN a ELSE b

\* Python's `a & mask` for a one-bit mask 2^k: the bit kept in place.
BitAnd(a, mask) == IF (a \div mask) % 2 = 1 THEN mask ELSE 0

\* A decoder using the unsigned format "B": the byte as it is.
SignedCharUnsigned(b) == b

\* struct format "b": a byte read as a two's-complement signed char.
SignedChar(b) == IF b <= 127 THEN b ELSE b - 256

\* A decoder whose format asks for three bytes ("bbb") of the two it is given.
CanUnpackThree(data) == Len(data) = 3

\* struct.unpack("bb", data) succeeds only on exactly two bytes.
CanUnpack(data) == Len(data) = 2

\* A decoder that adds each delta to the value bound by the previous call.
UnpackAccumulated(data) ==
    IF "x" \in DOMAIN frame
    THEN <<frame.x + SignedChar(data[1]), frame.y + SignedChar(data[2])>>
    ELSE <<SignedChar(data[1]), SignedChar(data[2])>>

\* struct.unpack("bb", data): the two bytes as signed chars.
Unpack(data) == <<SignedChar(data[1]), SignedChar(data[2])>>

\* str.format "{}" of an int: a minus sign for negatives, then decimal digits.
DigitChar(d) == <<"0", "1", "2", "3", "4", "5", "6", "7", "8", "9">>[d + 1]

RECURSIVE Digits(_)
Digits(n) == IF n < 10 THEN <<DigitChar(n)>>
             ELSE Append(Digits(n \div 10), DigitChar(n % 10))

Str(n) == IF n < 0 THEN <<"-">> \o Digits(-n) ELSE Digits(n)

\* Glyphs, one element per printed character; an arrow is named by its code point.
LeftArrow == "U+2190"

RightArrow == "U+2192"

UpArrow == "U+2191"

DownArrow == "U+2193"

Blank == " "

XArrow(x) == IF x < 0 THEN LeftArrow ELSE IF x > 0 THEN RightArrow ELSE Blank

\* The vertical glyphs exchanged: upward for positive deltas.
YArrowSwapped(y) == IF y < 0 THEN DownArrow ELSE IF y > 0 THEN UpArrow ELSE Blank

YArrow(y) == IF y < 0 THEN UpArrow ELSE IF y > 0 THEN DownArrow ELSE Blank

\* A format string with one space before the parenthesis: "{} {} (x: {}, y: {})".
FormatOneSpace(xarrow, yarrow, x, y) ==
    <<xarrow, " ", yarrow, " ", "(", "x", ":", " ">> \o Str(x)
        \o <<",", " ", "y", ":", " ">> \o Str(y) \o <<")">>

\* "{} {}  (x: {}, y: {})".format(xarrow, yarrow, x, y)
Format(xarrow, yarrow, x, y) ==
    <<xarrow, " ", yarrow, " ", " ", "(", "x", ":", " ">> \o Str(x)
        \o <<",", " ", "y", ":", " ">> \o Str(y) \o <<")">>

----------------------------------------------------------------------------
(* The device and the process *)

Bytes == 0..ByteMax

\* Every byte sequence of at most MaxBytes sample bytes, ended either way.
Init ==
    /\ source \in UNION {[1..n -> SampleBytes] : n \in 0..MaxBytes}
    /\ endKind \in {"eof", "ioerror"}
    /\ pos = 0
    /\ stdout = <<>>
    /\ frame = [n \in {} |-> 0]
    /\ pc = "loop"
    /\ exc = ""
    /\ status = -1

\* A read that fills a short record with zero bytes up to n.
ReadPadded(n) ==
    LET got == SubSeq(source, pos + 1, Min(pos + n, Len(source)))
    IN  IF Len(got) = 0 THEN got ELSE got \o [k \in 1..(n - Len(got)) |-> 0]

\* A read on a file opened anew for every call: always the first bytes.
ReadFromStart(n) == SubSeq(source, 1, Min(n, Len(source)))

\* file.read(n) on a buffered binary file: n bytes, fewer only at the end.
Read(n) == SubSeq(source, pos + 1, Min(pos + n, Len(source)))

\* The read cannot be completed and the device fails instead of closing.
ReadRaises(n) == endKind = "ioerror" /\ Len(source) - pos < n

\* An end of file on a record boundary taken for a clean end: status 0.
ExitStatusCleanEof(e) == IF e = "IndexError" THEN 0 ELSE 1

\* An exception nothing catches: the interpreter exits with status 1.
ExitStatus(e) == 1

Raise(e) ==
    /\ pc' = "exited"
    /\ exc' = e
    /\ status' = ExitStatus(e)

\* print(line): one more line on standard output.
PrintLine(line) == stdout' = Append(stdout, line)

\* The masks of the middle and right buttons exchanged.
ButtonsSwapped(button) ==
    [bLeft |-> BitAnd(button, 1),
     bMiddle |-> BitAnd(button, 2) > 0,
     bRight |-> BitAnd(button, 4) > 0]

\* The three button flags as the code computes them: bLeft is the masked
\* integer, bMiddle and bRight are comparisons.
Buttons(button) ==
    [bLeft |-> BitAnd(button, 1),
     bMiddle |-> BitAnd(button, 4) > 0,
     bRight |-> BitAnd(button, 2) > 0]

\* The bindings getMouseEvent makes from lines 13 to 16.
ButtonFrame(buf) ==
    LET b == Buttons(buf[1])
    IN  [buf |-> buf, button |-> buf[1], bLeft |-> b.bLeft,
         bMiddle |-> b.bMiddle, bRight |-> b.bRight]

\* file.read raises: nothing is bound, nothing is printed.
GetMouseEventOSError ==
    /\ pc = "loop"
    /\ ReadRaises(RecordSize)
    /\ pos' = pos + Len(Read(RecordSize))
    /\ frame' = [n \in {} |-> 0]
    /\ Raise("OSError")
    /\ UNCHANGED <<source, endKind, stdout>>

\* The read returns no byte: buf[0] raises IndexError.
GetMouseEventIndexError ==
    /\ pc = "loop"
    /\ ~ReadRaises(RecordSize)
    /\ LET buf == Read(RecordSize)
       IN  /\ Len(buf) = 0
           /\ pos' = pos + Len(buf)
           /\ frame' = [buf |-> buf]
    /\ Raise("IndexError")
    /\ UNCHANGED <<source, endKind, stdout>>

\* The read returns a short record: struct.unpack raises struct.error.
GetMouseEventStructError ==
    /\ pc = "loop"
    /\ ~ReadRaises(RecordSize)
    /\ LET buf == Read(RecordSize)
       IN  /\ Len(buf) > 0
           /\ ~CanUnpack(Tail(buf))
           /\ pos' = pos + Len(buf)
           /\ frame' = ButtonFrame(buf)
    /\ Raise("struct.error")
    /\ UNCHANGED <<source, endKind, stdout>>

\* A whole record: decode it and print its line; the loop goes on.
GetMouseEventPrint ==
    /\ pc = "loop"
    /\ ~ReadRaises(RecordSize)
    /\ LET buf == Read(RecordSize)
       IN  /\ Len(buf) > 0
           /\ CanUnpack(Tail(buf))
           /\ LET xy == Unpack(Tail(buf))
                  x == xy[1]
                  y == xy[2]
                  xarrow == XArrow(x)
                  yarrow == YArrow(y)
                  f == ButtonFrame(buf)
              IN  /\ pos' = pos + Len(buf)
                  /\ frame' = [buf |-> buf, button |-> f.button,
                               bLeft |-> f.bLeft, bMiddle |-> f.bMiddle,
                               bRight |-> f.bRight, x |-> x, y |-> y,
                               xarrow |-> xarrow, yarrow |-> yarrow]
                  /\ PrintLine(Format(xarrow, yarrow, x, y))
    /\ UNCHANGED <<source, endKind, pc, exc, status>>

getMouseEvent ==
    \/ GetMouseEventOSError
    \/ GetMouseEventIndexError
    \/ GetMouseEventStructError
    \/ GetMouseEventPrint

Next == getMouseEvent

Spec == Init /\ [][Next]_vars

\* The loop never waits forever on a device that delivers its bytes and ends.
LiveSpec == Spec /\ WF_vars(Next)

\* One record over the whole byte range: every button byte with sample
\* motion bytes, and every pair of motion bytes with a sample button byte.
DecodeInit ==
    /\ source \in {<<b0, b1, b2>> : b0 \in Bytes, b1 \in SampleBytes, b2 \in SampleBytes}
                  \cup {<<b0, b1, b2>> : b0 \in SampleBytes, b1 \in Bytes, b2 \in Bytes}
    /\ endKind \in {"eof", "ioerror"}
    /\ pos = 0
    /\ stdout = <<>>
    /\ frame = [n \in {} |-> 0]
    /\ pc = "loop"
    /\ exc = ""
    /\ status = -1

DecodeSpec == (Init \/ DecodeInit) /\ [][Next]_vars

----------------------------------------------------------------------------
(* Vocabulary of the properties *)

\* The i-th record of the source, counting from 1.
Record(i) == SubSeq(source, RecordSize * (i - 1) + 1, RecordSize * i)

\* A byte read as a two's-complement 8-bit value.
Signed8(b) == IF b <= 127 THEN b ELSE b - 256

Printed == 1..Len(stdout)

Decoded == "x" \in DOMAIN frame

----------------------------------------------------------------------------
\* C1: for every first byte b0 in 0..255, bLeft is set iff bit 0 of b0 is set,
\* bRight iff bit 1 is set and bMiddle iff bit 2 is set; the flags depend on
\* b0 only through its three low bits (b0 mod 8), so bits 3..7 have no influence.
ButtonsFromLowBits ==
    ("bLeft" \in DOMAIN frame) =>
        LET low == frame.buf[1] % 8
        IN  /\ frame.button = frame.buf[1]
            /\ frame.bLeft = (IF low \in {1, 3, 5, 7} THEN 1 ELSE 0)
            /\ frame.bRight = (low \in {2, 3, 6, 7})
            /\ frame.bMiddle = (low \in {4, 5, 6, 7})

\* A record whose first byte is 0xFA (bit 1 and all of bits 3..7 set) was decoded.
ButtonsWitness ==
    /\ Decoded
    /\ frame.buf[1] = 250
    /\ frame.bLeft = 0
    /\ frame.bRight
    /\ ~frame.bMiddle

\* C2: for all bytes b1, b2 in 0..255, x and y are the two's-complement values
\* of b1 and b2 (b if b <= 127, else b - 256), both in -128..127; 0x80 gives
\* -128, 0x7F gives 127 and 0x00 gives 0.
DeltasSigned ==
    Decoded =>
        LET b1 == frame.buf[2]
            b2 == frame.buf[3]
        IN  /\ frame.x = (IF b1 <= 127 THEN b1 ELSE b1 - 256)
            /\ frame.y = (IF b2 <= 127 THEN b2 ELSE b2 - 256)
            /\ frame.x \in -128..127
            /\ frame.y \in -128..127
            /\ (b1 = 128 => frame.x = -128) /\ (b2 = 128 => frame.y = -128)
            /\ (b1 = 127 => frame.x = 127) /\ (b2 = 127 => frame.y = 127)
            /\ (b1 = 0 => frame.x = 0) /\ (b2 = 0 => frame.y = 0)

\* The record with b1 = 0x80 and b2 = 0x7F was decoded to the two extremes.
DeltasWitness ==
    /\ Decoded
    /\ frame.buf[2] = 128 /\ frame.x = -128
    /\ frame.buf[3] = 127 /\ frame.y = 127

\* The text "(x: <x>, y: <y>)" of a line.
Parenthesised(x, y) ==
    <<"(", "x", ":", " ">> \o Str(x) \o <<",", " ", "y", ":", " ">> \o Str(y) \o <<")">>

\* The line of the example: the rightward glyph, three spaces, "(x: 5, y: 0)".
ExampleLineThreeSpaces ==
    <<RightArrow, " ", " ", " ", "(", "x", ":", " ", "5", ",", " ", "y", ":", " ", "0", ")">>

\* The line the code prints for it: the rightward glyph, four spaces, "(x: 5, y: 0)".
ExampleLineFourSpaces ==
    <<RightArrow, " ", " ", " ", " ", "(", "x", ":", " ", "5", ",", " ", "y", ":", " ", "0", ")">>

\* C3 as stated: every line is the horizontal glyph, a space, the vertical
\* glyph, one space and the parenthesised values, so that the record
\* [0x00, 0x05, 0x00] prints the rightward glyph, three spaces and "(x: 5, y: 0)".
LineLayoutOfExample ==
    \A i \in Printed :
        LET r == Record(i)
            line == stdout[i]
        IN  /\ line = <<line[1], " ", line[3], " ">> \o Parenthesised(Signed8(r[2]), Signed8(r[3]))
            /\ (r = <<0, 5, 0>> => line = ExampleLineThreeSpaces)

\* C3 amended: every line is the horizontal glyph, one space, the vertical
\* glyph, two spaces and the parenthesised values of deltaX and deltaY, so that
\* the record [0x00, 0x05, 0x00] prints the rightward glyph, four spaces and
\* "(x: 5, y: 0)".
LineLayoutTwoSpaces ==
    \A i \in Printed :
        LET r == Record(i)
            line == stdout[i]
        IN  /\ line = <<line[1], " ", line[3], " ", " ">> \o Parenthesised(Signed8(r[2]), Signed8(r[3]))
            /\ line[1] \in {LeftArrow, RightArrow, Blank}
            /\ line[3] \in {UpArrow, DownArrow, Blank}
            /\ (r = <<0, 5, 0>> => line = ExampleLineFourSpaces)

\* The record [0x00, 0x05, 0x00] was read and its line printed.
LineLayoutWitness ==
    \E i \in Printed : Record(i) = <<0, 5, 0>> /\ stdout[i] = ExampleLineFourSpaces

\* C4: in every printed line the horizontal glyph is the leftward arrow iff
\* deltaX < 0, the rightward arrow iff deltaX > 0 and a blank iff deltaX = 0; the
\* vertical glyph is the upward arrow iff deltaY < 0, the downward arrow iff
\* deltaY > 0 and a blank iff deltaY = 0, with the deltas the signed bytes 1 and 2.
GlyphsFollowSigns ==
    \A i \in Printed :
        LET x == Signed8(Record(i)[2])
            y == Signed8(Record(i)[3])
            h == stdout[i][1]
            v == stdout[i][3]
        IN  /\ (h = LeftArrow) <=> (x < 0)
            /\ (h = RightArrow) <=> (x > 0)
            /\ (h = Blank) <=> (x = 0)
            /\ (v = UpArrow) <=> (y < 0)
            /\ (v = DownArrow) <=> (y > 0)
            /\ (v = Blank) <=> (y = 0)

\* Lines were printed for b1 = 0x80 with b2 = 0x7F: leftward and downward glyphs.
GlyphsWitness ==
    /\ Len(stdout) = 1
    /\ source[2] = 128 /\ stdout[1][1] = LeftArrow
    /\ source[3] = 127 /\ stdout[1][3] = DownArrow

\* C5: a call of getMouseEvent that finds fewer than 3 bytes left (0, 1 or 2)
\* ends the process with a non-zero status and prints nothing.
ShortReadExitsSilently ==
    [][(Len(source) - pos < RecordSize) =>
            (pc' = "exited" /\ status' # 0 /\ stdout' = stdout)]_vars

\* After one printed record, a read of 2 bytes ended the process.
ShortReadWitness ==
    /\ pc = "exited"
    /\ exc = "struct.error"
    /\ Len(frame.buf) = 2
    /\ Len(stdout) = 1
    /\ status = 1

\* C6: the process is either in the loop or has exited with a non-zero status
\* through an exception of a read that returned fewer than 3 bytes; it never
\* exits with status 0 and never exits while a complete record is left.
NoSuccessfulExit ==
    /\ pc \in {"loop", "exited"}
    /\ (pc = "loop" => exc = "")
    /\ (pc = "exited" =>
            /\ status # 0
            /\ exc \in {"OSError", "IndexError", "struct.error"}
            /\ ("buf" \in DOMAIN frame => Len(frame.buf) < RecordSize)
            /\ Len(source) - RecordSize * Len(stdout) < RecordSize)

\* The device failed after two complete records and the process exited.
NoSuccessfulExitWitness ==
    /\ pc = "exited"
    /\ exc = "OSError"
    /\ Len(stdout) = 2
    /\ Len(source) = 6

\* C7: the i-th printed line is the decoding of the i-th record of the source
\* (bytes 3i, 3i+1, 3i+2 counting from 0); while the loop runs, k printed lines
\* mean exactly 3k bytes consumed, and at most an incomplete record beyond them
\* is ever consumed.
LinesFollowRecords ==
    /\ \A i \in Printed :
        LET x == Signed8(Record(i)[2])
            y == Signed8(Record(i)[3])
        IN  /\ Len(Record(i)) = RecordSize
            /\ stdout[i] = Format(XArrow(x), YArrow(y), x, y)
    /\ (pc = "loop" => pos = RecordSize * Len(stdout))
    /\ pos - RecordSize * Len(stdout) \in 0..(RecordSize - 1)
    /\ pos <= Len(source)

\* Two different records were printed, in the order of the source.
LinesFollowRecordsWitness ==
    /\ pc = "loop"
    /\ Len(stdout) = 2
    /\ pos = 6
    /\ stdout[1] # stdout[2]

\* C8: equal records print equal lines wherever they stand in the source, and a
\* record decoded right after an equal record binds the same values.
SameRecordSameLine ==
    /\ [](\A i \in Printed : \A j \in Printed :
            Record(i) = Record(j) => stdout[i] = stdout[j])
    /\ [][(Decoded /\ "x" \in DOMAIN frame' /\ frame'.buf = frame.buf) =>
            frame' = frame]_vars

\* The same moving record was printed twice in a row.
SameRecordWitness ==
    /\ Len(stdout) = 2
    /\ Record(1) = Record(2)
    /\ Record(1)[2] # 0
    /\ Record(1)[3] # 0
    /\ stdout[1] = stdout[2]

\* C9: the button flags are in the printed line: two records with the same
\* motion bytes and different bits 0..2 of byte 0 print different lines.
ButtonsInLine ==
    \A i \in Printed : \A j \in Printed :
        (/\ Record(i)[2] = Record(j)[2]
         /\ Record(i)[3] = Record(j)[3]
         /\ Record(i)[1] % 8 # Record(j)[1] % 8) => stdout[i] # stdout[j]

\* C10: a source of n bytes that then ends makes the process exit, with a
\* non-zero status and exactly floor(n / 3) lines printed, also when n is a
\* multiple of 3 or 0.
EventuallyExitsWithError ==
    <>(pc = "exited" /\ status # 0 /\ Len(stdout) = Len(source) \div RecordSize)

\* A source of 6 bytes closed on the record boundary: two lines, then exit 1.
EventuallyExitsWitness ==
    /\ pc = "exited"
    /\ endKind = "eof"
    /\ exc = "IndexError"
    /\ Len(source) = 6
    /\ Len(stdout) = 2
    /\ status = 1

====
